---- MODULE Spec2Model ----
(***************************************************************************)
(* A model of netmiko/mikrotik/mikrotik_ssh.py: the MikrotikBase session   *)
(* (prompt detection, prompt stripping, command-echo reading and the       *)
(* capability stubs) over a character stream.  Text is a sequence of       *)
(* one-character strings.                                                   *)
(***************************************************************************)
EXTENDS Integers, Sequences, FiniteSets, TLC

(* ------------------------------------------------------------------ *)
(* Bounds of the model                                                 *)
(* ------------------------------------------------------------------ *)
MaxTextLen == 6
MaxStreamLen == 3
MaxReadTimeout == 4
MaxWrites == 2
MaxEchoWrites == 1

(* ------------------------------------------------------------------ *)
(* Characters and text helpers (Python str methods)                    *)
(* ------------------------------------------------------------------ *)
NL == "\n"
\* The escape byte 0x1b, as one character.
ESC == "ESC"
Whitespace == {" ", NL, "\r", "\t"}
Digits == {"9"}

\* All sequences over alphabet A of length at most n.
SeqsUpTo(A, n) == UNION {[1..k -> A] : k \in 0..n}

\* str.rstrip()
RECURSIVE RStrip(_)
RStrip(s) ==
    IF s = <<>> THEN <<>>
    ELSE IF s[Len(s)] \in Whitespace THEN RStrip(SubSeq(s, 1, Len(s) - 1))
    ELSE s

\* str.lstrip()
RECURSIVE LStrip(_)
LStrip(s) ==
    IF s = <<>> THEN <<>>
    ELSE IF Head(s) \in Whitespace THEN LStrip(Tail(s))
    ELSE s

\* str.strip()
Strip(s) == LStrip(RStrip(s))

\* Python's `sub in s`
Contains(sub, s) ==
    \E i \in 1..(Len(s) + 1) :
        /\ i + Len(sub) - 1 <= Len(s)
        /\ SubSeq(s, i, i + Len(sub) - 1) = sub

\* str.split(sep) for a one-character separator: always at least one line.
RECURSIVE Split(_, _)
Split(s, sep) ==
    IF \A i \in 1..Len(s) : s[i] # sep THEN <<s>>
    ELSE LET i == CHOOSE j \in 1..Len(s) :
                     /\ s[j] = sep
                     /\ \A k \in 1..(j - 1) : s[k] # sep
         IN  <<SubSeq(s, 1, i - 1)>> \o Split(SubSeq(s, i + 1, Len(s)), sep)

\* sep.join(lines)
RECURSIVE Join(_, _)
Join(lines, sep) ==
    IF lines = <<>> THEN <<>>
    ELSE IF Len(lines) = 1 THEN lines[1]
    ELSE lines[1] \o <<sep>> \o Join(Tail(lines), sep)

\* lines[:-1]
ButLast(lines) == SubSeq(lines, 1, Len(lines) - 1)

\* The session's response line terminator (BaseConnection.RESPONSE_RETURN).
RESPONSE_RETURN == NL

(* ------------------------------------------------------------------ *)
(* State                                                               *)
(* ------------------------------------------------------------------ *)
VARIABLES
    tpc,               \* two callers sharing the session: where each is
                       \* ("idle", "sent", "read1", "read2", "returned",
                       \* "error")
    tout,              \* per caller: text accumulated by its read in progress
    telapsed,          \* per caller: time its read has waited (half units)
    ttimeout,          \* per caller: read_timeout of its read in progress
    tgot,              \* per caller: what its command_echo_read has taken
                       \* from the channel, each character with the caller
                       \* whose command it answers
    cwire,             \* the shared channel under two callers: characters
                       \* not yet read, each with the caller it answers
    overlapped,        \* a command was written while another was in flight
    prepTrace,         \* the calls session_preparation has made, in order
    answer,            \* what the device sent in answer to the last command
                       \* written (the stream as it was before any read)
    pc,                \* "unauth", "authenticating", "new", "idle", "sent",
                       \* "read1", "read2", "failed", "closed"
    username,          \* self.username
    authUser,          \* the identity presented at authentication
    nModify,           \* calls of _modify_connection_params so far
    caller_cmd_verify, \* cmd_verify of the last send_command_timing call:
                       \* "none" (no call yet), "on" or "off"
    super_cmd_verify,  \* cmd_verify the generic timed-send received from it
    base_prompt,       \* self.base_prompt
    _in_config_mode,   \* self._in_config_mode
    ansi_escape_codes, \* self.ansi_escape_codes
    devPrompt,         \* the prompt text the device emits (environment)
    response,          \* the response text accumulated for a command
    wire,              \* text the device has sent or will send, not yet read
    nWrites,           \* number of writes made to the transport
    cmd,               \* the command of the current command_echo_read
    read_timeout,      \* read_timeout of the read in progress (half units)
    elapsed,           \* time the read in progress has waited (half units)
    output,            \* text accumulated by the read in progress
    nReadCalls,        \* read_until_pattern calls of the current invocation
    nReadOk,           \* those of them that found the pattern
    nEchoes,           \* occurrences of cmd in the stream at the call
    probeTimedOut,     \* the second read of the invocation timed out
    lastOp,            \* the operation that returned or raised last
    arg,               \* its text argument
    ret,               \* its text result
    retBool,           \* its boolean result
    raised,            \* "" or the error it raised
    lastModeCall       \* "none", "config_mode" or "exit_config_mode"

sessionVars == <<base_prompt, _in_config_mode, ansi_escape_codes, lastModeCall>>
connVars == <<username, authUser, nModify>>
timingVars == <<caller_cmd_verify, super_cmd_verify>>
concVars == <<tpc, tout, telapsed, ttimeout, tgot, cwire, overlapped>>
baseEnvVars == <<devPrompt, response, connVars, timingVars, answer, prepTrace>>
envVars == <<baseEnvVars, concVars>>
channelVars == <<envVars, wire, nWrites>>
readVars == <<cmd, read_timeout, elapsed, output, nReadCalls, nReadOk, nEchoes,
              probeTimedOut>>
callVars == <<lastOp, arg, ret, retBool, raised>>
vars == <<pc, sessionVars, channelVars, readVars, callVars>>

(* ------------------------------------------------------------------ *)
(* The device (environment) and the generic base-class collaborators   *)
(* ------------------------------------------------------------------ *)
\* "\x1b[9999B[admin@hostname] > " as the device sends it.
ExamplePromptBytes ==
    <<ESC, "[", "9", "9", "9", "9", "B", "[", "a", "d", "m", "i", "n", "@",
      "h", "o", "s", "t", "n", "a", "m", "e", "]", " ", ">", " ">>

\* "[admin@hostname] >"
ExamplePrompt ==
    <<"[", "a", "d", "m", "i", "n", "@", "h", "o", "s", "t", "n", "a", "m",
      "e", "]", " ", ">">>

\* Prompt texts a device may emit on the channel.
DevicePrompts ==
    { <<">">>, <<">", " ">>, <<"a", ">">>, <<"a", " ", ">", " ">>,
      <<" ", "a", ">", " ", " ">>, <<"a", NL, "a", ">", " ">>,
      <<ESC, "[", "9", "B", "a", ">", " ">>, <<"a", " ">>,
      ExamplePromptBytes }

\* Removal of ANSI escape sequences (ESC [ digits final-byte) from text.
RECURSIVE SkipDigits(_)
SkipDigits(s) ==
    IF s # <<>> /\ Head(s) \in Digits THEN SkipDigits(Tail(s)) ELSE s

RECURSIVE StripAnsi(_)
StripAnsi(s) ==
    IF s = <<>> THEN <<>>
    ELSE IF Head(s) = ESC /\ Len(s) >= 2 /\ s[2] = "["
         THEN LET rest == SkipDigits(SubSeq(s, 3, Len(s)))
              IN  IF rest = <<>> THEN <<>> ELSE StripAnsi(Tail(rest))
    ELSE <<Head(s)>> \o StripAnsi(Tail(s))

\* What a channel read returns for raw device text: escape sequences are
\* removed when the session's ansi_escape_codes flag is set.
ChannelText(raw, ansi) == IF ansi THEN StripAnsi(raw) ELSE raw

\* _test_channel_read(pattern=r"[\]>]"): a terminator appears in the text.
PromptTerminators == {"]", ">"}
HasTerminator(text) == \E i \in 1..Len(text) : text[i] \in PromptTerminators

\* The generic set_base_prompt: the trailing prompt token of the channel
\* text, as delivered (the last line of the text).
BaseSetBasePrompt(text) ==
    LET lines == Split(text, NL) IN lines[Len(lines)]

\* The generic strip_prompt: drops the last line when it holds the prompt.
BaseStripPrompt(a_string, prompt) ==
    LET response_list == Split(a_string, RESPONSE_RETURN)
        last_line == response_list[Len(response_list)]
    IN  IF Contains(prompt, last_line)
        THEN Join(ButLast(response_list), RESPONSE_RETURN)
        ELSE a_string

(* ------------------------------------------------------------------ *)
(* MikrotikBase: pure parts                                            *)
(* ------------------------------------------------------------------ *)
\* _modify_connection_params: the login options appended to the username,
\* "+cetw511h4098".
LoginSuffix ==
    <<"+", "c", "e", "t", "w", "5", "1", "1", "h", "4", "0", "9", "8">>

\* _modify_connection_params: self.username += "+cetw511h4098"
ModifiedUsername_noappendMut(u) == u
ModifiedUsername(u) == u \o LoginSuffix

\* send_command_timing: the cmd_verify handed to the generic timed-send,
\* `cmd_verify=cmd_verify`.
DelegatedCmdVerify(cmd_verify) == cmd_verify

\* session_preparation: self.ansi_escape_codes = True
session_preparation_ansi_nosetMut == FALSE
session_preparation_ansi == TRUE

\* set_base_prompt: the value stored, given the generic method's result.
set_base_prompt_nostripMut(prompt) == prompt
set_base_prompt(prompt) == Strip(prompt)

\* strip_prompt: the value returned for a_string under the stored prompt.
strip_prompt_nosuperMut(a_string, prompt) ==
    LET response_list == Split(a_string, RESPONSE_RETURN)
        last_line == response_list[Len(response_list)]
    IN  IF Contains(prompt, last_line)
        THEN Strip(RStrip(Join(ButLast(response_list), RESPONSE_RETURN)))
        ELSE a_string

strip_prompt_elsestripMut(a_string, prompt) ==
    LET response_list == Split(a_string, RESPONSE_RETURN)
        last_line == response_list[Len(response_list)]
    IN  IF Contains(prompt, last_line)
        THEN Strip(BaseStripPrompt(
                 RStrip(Join(ButLast(response_list), RESPONSE_RETURN)), prompt))
        ELSE Strip(a_string)

strip_prompt_norstripMut(a_string, prompt) ==
    LET response_list == Split(a_string, RESPONSE_RETURN)
        last_line == response_list[Len(response_list)]
    IN  IF Contains(prompt, last_line)
        THEN Strip(BaseStripPrompt(
                 Join(ButLast(response_list), RESPONSE_RETURN), prompt))
        ELSE a_string

strip_prompt(a_string, prompt) ==
    LET response_list == Split(a_string, RESPONSE_RETURN)
        last_line == response_list[Len(response_list)]
    IN  IF Contains(prompt, last_line)
        THEN Strip(BaseStripPrompt(
                 RStrip(Join(ButLast(response_list), RESPONSE_RETURN)), prompt))
        ELSE a_string

\* command_echo_read: the timeout of the second (repaint) read, 1.5, in
\* half units.
PROBE_TIMEOUT == 3

\* re.search(re.escape(cmd), output): the literal text occurs.
\* The timeout of the second read, given the caller's read_timeout: the
\* literal 1.5, whatever the caller passed.
ProbeTimeout_callerMut(rt) == rt

ProbeTimeout(rt) == PROBE_TIMEOUT

PatternFound_neverMut(c, out) == FALSE

PatternFound(c, out) == Contains(c, out)

\* command_echo_read: what follows the first read finding the echo.
AfterFirstEcho_noprobeMut == "return"
AfterFirstEcho == "read2"

\* command_echo_read: a ReadTimeout of read number readNo (1 or 2).
OnReadTimeout_noexceptMut(readNo) == "raise"
OnReadTimeout(readNo) == IF readNo = 2 THEN "swallow" ELSE "raise"

\* command_echo_read: the value returned.
EchoResult_outputMut(c, out) == out
EchoResult(c, out) == c

(* ------------------------------------------------------------------ *)
(* Inputs                                                              *)
(* ------------------------------------------------------------------ *)
TextAlphabet == {"a", ">", " ", NL}
Texts == SeqsUpTo(TextAlphabet, MaxTextLen)
StreamAlphabet == {"a", "b", "z"}
Streams == SeqsUpTo(StreamAlphabet, MaxStreamLen)
Cmds == {<<"a">>, <<"a", "b">>}
ReadTimeouts == 1..MaxReadTimeout
SessionTimeouts == {1, MaxReadTimeout}
CmdVerifyArgs == {"on", "off"}
StubArgs == {<<>>, <<">">>}
\* Identity strings given to the session; one already ends in the suffix.
Usernames == { <<"a", "d", "m", "i", "n">>, <<>>, <<"u">> \o LoginSuffix }
AdminUser == <<"a", "d", "m", "i", "n">>
SessionResponses == { <<"a", NL, ">">>, <<"a">> }
SessionStreams == { <<"a", "z">>, <<"z", "a", "b", "a", "b">> }
EchoStreams == Streams \cup SessionStreams \cup { <<"a", "b", "a", "b", "z">> }

\* Two callers of one session, the command each sends, the answers the
\* device may give to a command (one echo or two, then output) and the
\* read_timeout the callers pass.
Callers == {1, 2}
ConcCmd(t) == IF t = 1 THEN <<"a">> ELSE <<"a", "b">>
ConcAnswers(c) == { c \o <<"z">>, c \o c \o <<"z">> }
ConcReadTimeouts == {1}

\* Non-overlapping occurrences of c in s, leftmost first (c non-empty).
RECURSIVE CountOcc(_, _)
CountOcc(c, s) ==
    IF Len(s) < Len(c) THEN 0
    ELSE IF SubSeq(s, 1, Len(c)) = c
         THEN 1 + CountOcc(c, SubSeq(s, Len(c) + 1, Len(s)))
    ELSE CountOcc(c, Tail(s))

(* ------------------------------------------------------------------ *)
(* Init: the object when MikrotikBase.__init__ hands over to the       *)
(* generic constructor: the flag set, nothing sent, not authenticated;  *)
(* the device's prompt is what the channel will hold once it is open    *)
(* ------------------------------------------------------------------ *)
InitOver(prompts, responses, users) ==
    /\ pc = "unauth"
    /\ username \in users
    /\ authUser = <<>>
    /\ nModify = 0
    /\ caller_cmd_verify = "none"
    /\ super_cmd_verify = "none"
    /\ base_prompt = <<>>
    /\ _in_config_mode = FALSE
    /\ ansi_escape_codes = FALSE
    /\ devPrompt \in prompts
    /\ response \in responses
    /\ wire = devPrompt
    /\ answer = <<>>
    /\ prepTrace = <<>>
    /\ tpc = [t \in Callers |-> "idle"]
    /\ tout = [t \in Callers |-> <<>>]
    /\ telapsed = [t \in Callers |-> 0]
    /\ ttimeout = [t \in Callers |-> 0]
    /\ tgot = [t \in Callers |-> <<>>]
    /\ cwire = <<>>
    /\ overlapped = FALSE
    /\ nWrites = 0
    /\ cmd = <<>>
    /\ read_timeout = 0
    /\ elapsed = 0
    /\ output = <<>>
    /\ nReadCalls = 0
    /\ nReadOk = 0
    /\ nEchoes = 0
    /\ probeTimedOut = FALSE
    /\ lastOp = "__init__"
    /\ arg = <<>>
    /\ ret = <<>>
    /\ retBool = FALSE
    /\ raised = ""
    /\ lastModeCall = "none"

InitWith(prompts, responses) == InitOver(prompts, responses, {AdminUser})

Init ==
    \/ InitWith(DevicePrompts, {<<"a">>})
    \/ InitOver({<<">", " ">>}, SessionResponses, Usernames)

(* ------------------------------------------------------------------ *)
(* Operations                                                          *)
(* ------------------------------------------------------------------ *)
\* An operation returns: what the caller sees.
Returns(op, a, r, rb) ==
    /\ lastOp' = op
    /\ arg' = a
    /\ ret' = r
    /\ retBool' = rb
    /\ raised' = ""

Raises(op, a, err) ==
    /\ lastOp' = op
    /\ arg' = a
    /\ ret' = <<>>
    /\ retBool' = FALSE
    /\ raised' = err

\* The generic constructor calls _modify_connection_params once, before it
\* establishes the connection.
_modify_connection_params ==
    /\ pc = "unauth"
    /\ username' = ModifiedUsername(username)
    /\ nModify' = nModify + 1
    /\ pc' = "authenticating"
    /\ Returns("_modify_connection_params", <<>>, <<>>, FALSE)
    /\ UNCHANGED <<sessionVars, devPrompt, response, authUser, timingVars,
                   answer, prepTrace, concVars, wire, nWrites,
                   readVars>>

\* The transport authenticates with self.username and opens the channel.
establish_connection ==
    /\ pc = "authenticating"
    /\ authUser' = username
    /\ pc' = "new"
    /\ Returns("establish_connection", <<>>, <<>>, FALSE)
    /\ UNCHANGED <<sessionVars, devPrompt, response, username, nModify,
                   timingVars, answer, prepTrace, concVars, wire, nWrites,
                   readVars>>

\* session_preparation calls _test_channel_read outside any try: a
\* ReadTimeout of that read leaves session_preparation at once.
session_preparation_on_timeout_continueMut == "continue"

session_preparation_on_timeout == "raise"

\* session_preparation: the flag, then the read for a prompt terminator,
\* then set_base_prompt; prepTrace records the calls in the order made.
session_preparation ==
    /\ pc = "new"
    /\ ansi_escape_codes' = session_preparation_ansi
    /\ IF HasTerminator(ChannelText(wire, ansi_escape_codes'))
       THEN /\ prepTrace' = <<"_test_channel_read", "set_base_prompt">>
            /\ base_prompt' = set_base_prompt(
                    BaseSetBasePrompt(ChannelText(devPrompt, ansi_escape_codes')))
            /\ pc' = "idle"
            /\ Returns("session_preparation", <<>>, <<>>, FALSE)
       ELSE IF session_preparation_on_timeout = "raise"
       THEN /\ prepTrace' = <<"_test_channel_read">>
            /\ base_prompt' = base_prompt
            /\ pc' = "failed"
            /\ Raises("session_preparation", <<>>, "ReadTimeout")
       ELSE /\ prepTrace' = <<"_test_channel_read", "set_base_prompt">>
            /\ base_prompt' = set_base_prompt(
                    BaseSetBasePrompt(ChannelText(devPrompt, ansi_escape_codes')))
            /\ pc' = "idle"
            /\ Returns("session_preparation", <<>>, <<>>, FALSE)
    /\ wire' = <<>>
    /\ UNCHANGED <<_in_config_mode, lastModeCall, devPrompt, response, connVars,
                   timingVars, answer, concVars, nWrites, readVars>>

set_base_prompt_call ==
    /\ pc = "idle"
    /\ base_prompt' = set_base_prompt(
            BaseSetBasePrompt(ChannelText(devPrompt, ansi_escape_codes)))
    /\ Returns("set_base_prompt", <<>>, base_prompt', FALSE)
    /\ UNCHANGED <<pc, _in_config_mode, ansi_escape_codes, lastModeCall,
                   channelVars, readVars>>

\* The stubs and strip_prompt never touch the transport and check nothing:
\* they run the same on a prepared session and on a closed one.
NoTransportStates == {"idle", "closed"}

disable_paging_writesMut(a) ==
    /\ pc \in NoTransportStates
    /\ nWrites < MaxWrites
    /\ nWrites' = nWrites + 1
    /\ Returns("disable_paging", a, <<>>, FALSE)
    /\ UNCHANGED <<pc, sessionVars, envVars, wire, readVars>>

disable_paging(a) ==
    /\ pc \in NoTransportStates
    /\ Returns("disable_paging", a, <<>>, FALSE)
    /\ UNCHANGED <<pc, sessionVars, channelVars, readVars>>

save_config(a) ==
    /\ pc \in NoTransportStates
    /\ Returns("save_config", a, <<>>, FALSE)
    /\ UNCHANGED <<pc, sessionVars, channelVars, readVars>>

config_mode(a) ==
    /\ pc \in NoTransportStates
    /\ _in_config_mode' = TRUE
    /\ lastModeCall' = "config_mode"
    /\ Returns("config_mode", a, <<>>, FALSE)
    /\ UNCHANGED <<pc, base_prompt, ansi_escape_codes, channelVars, readVars>>

check_config_mode(a) ==
    /\ pc \in NoTransportStates
    /\ Returns("check_config_mode", a, <<>>, _in_config_mode)
    /\ UNCHANGED <<pc, sessionVars, channelVars, readVars>>

exit_config_mode_nosetMut(a) ==
    /\ pc \in NoTransportStates
    /\ lastModeCall' = "exit_config_mode"
    /\ Returns("exit_config_mode", a, <<>>, FALSE)
    /\ UNCHANGED <<pc, base_prompt, _in_config_mode, ansi_escape_codes,
                   channelVars, readVars>>

exit_config_mode(a) ==
    /\ pc \in NoTransportStates
    /\ _in_config_mode' = FALSE
    /\ lastModeCall' = "exit_config_mode"
    /\ Returns("exit_config_mode", a, <<>>, FALSE)
    /\ UNCHANGED <<pc, base_prompt, ansi_escape_codes, channelVars, readVars>>

\* A strip_prompt that would derive the prompt again from the text it is given.
strip_prompt_call_rederiveMut ==
    /\ pc \in NoTransportStates
    /\ base_prompt' = Strip(response)
    /\ Returns("strip_prompt", response, strip_prompt(response, base_prompt'), FALSE)
    /\ UNCHANGED <<pc, _in_config_mode, ansi_escape_codes, lastModeCall,
                   channelVars, readVars>>

strip_prompt_call ==
    /\ pc \in NoTransportStates
    /\ Returns("strip_prompt", response, strip_prompt(response, base_prompt), FALSE)
    /\ UNCHANGED <<pc, sessionVars, channelVars, readVars>>

\* clear_buffer: the generic buffer clear (with delay_factor 10) reads and
\* discards what the channel holds.
clear_buffer ==
    /\ pc = "idle"
    /\ wire' = <<>>
    /\ Returns("clear_buffer", <<>>, <<>>, FALSE)
    /\ UNCHANGED <<pc, sessionVars, envVars, nWrites, readVars>>

\* The caller disconnects a prepared session between two operations: the
\* transport closes and what was unread is gone.
disconnect ==
    /\ pc = "idle"
    /\ pc' = "closed"
    /\ wire' = <<>>
    /\ Returns("disconnect", <<>>, <<>>, FALSE)
    /\ UNCHANGED <<sessionVars, envVars, nWrites, readVars>>

\* Operations that write to or read from the transport fail on a closed
\* session and change nothing.
TransportOps == {"write_channel", "command_echo_read", "send_command_timing",
                 "set_base_prompt", "clear_buffer"}

closed_transport_op(op) ==
    /\ pc = "closed"
    /\ Raises(op, <<>>, "SessionClosed")
    /\ UNCHANGED <<pc, sessionVars, channelVars, readVars>>

\* The caller of command_echo_read writes the command first; the device
\* answers with some stream (echoes, repaints, output), which arrives over
\* time.
write_channel(c, stream) ==
    /\ pc = "idle"
    /\ nWrites < MaxWrites
    /\ wire = <<>>
    /\ pc' = "sent"
    /\ cmd' = c
    /\ nWrites' = nWrites + 1
    /\ wire' = stream
    /\ read_timeout' = 0
    /\ elapsed' = 0
    /\ output' = <<>>
    /\ nReadCalls' = 0
    /\ nReadOk' = 0
    /\ nEchoes' = 0
    /\ probeTimedOut' = FALSE
    /\ answer' = stream
    /\ Returns("write_channel", c, <<>>, FALSE)
    /\ UNCHANGED <<sessionVars, devPrompt, response, connVars, timingVars,
                   prepTrace, concVars>>

\* send_command_timing(command_string, cmd_verify): delegates to the generic
\* timed-send, which writes the command and, with cmd_verify on, runs
\* command_echo_read before it reads the output; with cmd_verify off it reads
\* all that arrives, echoes included, as output.
send_command_timing(c, stream, cmd_verify) ==
    /\ pc = "idle"
    /\ nWrites < MaxWrites
    /\ wire = <<>>
    /\ caller_cmd_verify' = cmd_verify
    /\ super_cmd_verify' = DelegatedCmdVerify(cmd_verify)
    /\ answer' = stream
    /\ cmd' = c
    /\ nWrites' = nWrites + 1
    /\ read_timeout' = 0
    /\ elapsed' = 0
    /\ output' = <<>>
    /\ nReadCalls' = 0
    /\ nReadOk' = 0
    /\ nEchoes' = 0
    /\ probeTimedOut' = FALSE
    /\ IF super_cmd_verify' = "on"
       THEN /\ pc' = "sent"
            /\ wire' = stream
            /\ Returns("write_channel", c, <<>>, FALSE)
       ELSE /\ pc' = "idle"
            /\ wire' = <<>>
            /\ Returns("send_command_timing", c, stream, FALSE)
    /\ UNCHANGED <<sessionVars, devPrompt, response, connVars, prepTrace,
                   concVars>>

\* command_echo_read(cmd, read_timeout): entry, the first read starts.
command_echo_read_call(rt) ==
    /\ pc = "sent"
    /\ pc' = "read1"
    /\ read_timeout' = rt
    /\ elapsed' = 0
    /\ output' = <<>>
    /\ nReadCalls' = 1
    /\ nReadOk' = 0
    /\ nEchoes' = CountOcc(cmd, wire)
    /\ probeTimedOut' = FALSE
    /\ UNCHANGED <<sessionVars, channelVars, cmd, callVars>>

\* read_until_pattern: the next character arrives and is read; the read
\* ends as soon as the pattern occurs, the rest of the stream stays unread.
read_recv ==
    /\ pc \in {"read1", "read2"}
    /\ elapsed < read_timeout
    /\ wire # <<>>
    /\ wire' = Tail(wire)
    /\ LET out == Append(output, Head(wire))
       IN  IF ~PatternFound(cmd, out)
           THEN /\ output' = out
                /\ UNCHANGED <<pc, read_timeout, elapsed, nReadCalls, nReadOk,
                               callVars>>
           ELSE IF pc = "read1" /\ AfterFirstEcho = "read2"
           THEN /\ pc' = "read2"
                /\ read_timeout' = ProbeTimeout(read_timeout)
                /\ elapsed' = 0
                /\ output' = <<>>
                /\ nReadCalls' = nReadCalls + 1
                /\ nReadOk' = nReadOk + 1
                /\ UNCHANGED callVars
           ELSE /\ pc' = "idle"
                /\ output' = out
                /\ nReadOk' = nReadOk + 1
                /\ Returns("command_echo_read", cmd, EchoResult(cmd, out), FALSE)
                /\ UNCHANGED <<read_timeout, elapsed, nReadCalls>>
    /\ UNCHANGED <<sessionVars, envVars, nWrites, cmd, nEchoes, probeTimedOut>>

\* read_until_pattern: time passes while the read waits for the device.
read_tick ==
    /\ pc \in {"read1", "read2"}
    /\ elapsed < read_timeout
    /\ elapsed' = elapsed + 1
    /\ UNCHANGED <<pc, sessionVars, channelVars, cmd, read_timeout, output,
                   nReadCalls, nReadOk, nEchoes, probeTimedOut, callVars>>

\* read_until_pattern raises ReadTimeout; command_echo_read lets the first
\* read's error through and swallows the second's.
read_expire ==
    /\ pc \in {"read1", "read2"}
    /\ elapsed >= read_timeout
    /\ pc' = "idle"
    /\ IF OnReadTimeout(IF pc = "read1" THEN 1 ELSE 2) = "swallow"
       THEN Returns("command_echo_read", cmd, EchoResult(cmd, output), FALSE)
       ELSE Raises("command_echo_read", cmd, "ReadTimeout")
    /\ probeTimedOut' = (pc = "read2")
    /\ UNCHANGED <<sessionVars, channelVars, cmd, read_timeout, elapsed, output,
                   nReadCalls, nReadOk, nEchoes>>

(* ------------------------------------------------------------------ *)
(* Two callers on one session.  command_echo_read takes no lock and     *)
(* keeps no per-caller channel: each caller runs the same code as       *)
(* above on the one shared channel, a step at a time.                   *)
(* ------------------------------------------------------------------ *)
\* Text s as sent in answer to caller t's command.
Tagged(s, t) == [i \in 1..Len(s) |-> <<s[i], t>>]

\* The characters of tagged text.
Chars(ts) == [i \in 1..Len(ts) |-> ts[i][1]]

\* Caller t writes its command; the device's answer follows whatever the
\* channel still holds.
conc_write_channel(t, stream) ==
    /\ pc = "idle"
    /\ tpc[t] = "idle"
    /\ nWrites < MaxWrites
    /\ nWrites' = nWrites + 1
    /\ cwire' = cwire \o Tagged(stream, t)
    /\ overlapped' = (\/ overlapped
                      \/ cwire # <<>>
                      \/ \E u \in Callers \ {t} : tpc[u] # "idle")
    /\ tpc' = [tpc EXCEPT ![t] = "sent"]
    /\ tout' = [tout EXCEPT ![t] = <<>>]
    /\ tgot' = [tgot EXCEPT ![t] = <<>>]
    /\ telapsed' = [telapsed EXCEPT ![t] = 0]
    /\ ttimeout' = [ttimeout EXCEPT ![t] = 0]
    /\ UNCHANGED <<pc, sessionVars, baseEnvVars, wire, readVars, callVars>>

\* Caller t enters command_echo_read: its first read starts.
conc_command_echo_read_call(t, rt) ==
    /\ pc = "idle"
    /\ tpc[t] = "sent"
    /\ tpc' = [tpc EXCEPT ![t] = "read1"]
    /\ ttimeout' = [ttimeout EXCEPT ![t] = rt]
    /\ telapsed' = [telapsed EXCEPT ![t] = 0]
    /\ UNCHANGED <<pc, sessionVars, baseEnvVars, wire, nWrites, readVars,
                   callVars, tout, tgot, cwire, overlapped>>

\* Caller t's read_until_pattern reads the next character of the channel,
\* whoever it was sent for.
conc_read_recv(t) ==
    /\ pc = "idle"
    /\ tpc[t] \in {"read1", "read2"}
    /\ telapsed[t] < ttimeout[t]
    /\ cwire # <<>>
    /\ cwire' = Tail(cwire)
    /\ tgot' = [tgot EXCEPT ![t] = Append(@, Head(cwire))]
    /\ LET out == Append(tout[t], Head(cwire)[1])
       IN  IF ~PatternFound(ConcCmd(t), out)
           THEN /\ tout' = [tout EXCEPT ![t] = out]
                /\ UNCHANGED <<tpc, ttimeout, telapsed>>
           ELSE IF tpc[t] = "read1" /\ AfterFirstEcho = "read2"
           THEN /\ tpc' = [tpc EXCEPT ![t] = "read2"]
                /\ ttimeout' = [ttimeout EXCEPT ![t] = ProbeTimeout(@)]
                /\ telapsed' = [telapsed EXCEPT ![t] = 0]
                /\ tout' = [tout EXCEPT ![t] = <<>>]
           ELSE /\ tpc' = [tpc EXCEPT ![t] = "returned"]
                /\ tout' = [tout EXCEPT ![t] = <<>>]
                /\ UNCHANGED <<ttimeout, telapsed>>
    /\ UNCHANGED <<pc, sessionVars, baseEnvVars, wire, nWrites, readVars,
                   callVars, overlapped>>

\* Time passes for caller t's read.
conc_read_tick(t) ==
    /\ pc = "idle"
    /\ tpc[t] \in {"read1", "read2"}
    /\ telapsed[t] < ttimeout[t]
    /\ telapsed' = [telapsed EXCEPT ![t] = @ + 1]
    /\ UNCHANGED <<pc, sessionVars, baseEnvVars, wire, nWrites, readVars,
                   callVars, tpc, tout, ttimeout, tgot, cwire, overlapped>>

\* Caller t's read times out: the first read's error reaches the caller,
\* the second's is swallowed.
conc_read_expire(t) ==
    /\ pc = "idle"
    /\ tpc[t] \in {"read1", "read2"}
    /\ telapsed[t] >= ttimeout[t]
    /\ tpc' = [tpc EXCEPT ![t] =
                 IF OnReadTimeout(IF tpc[t] = "read1" THEN 1 ELSE 2) = "swallow"
                 THEN "returned"
                 ELSE "error"]
    /\ tout' = [tout EXCEPT ![t] = <<>>]
    /\ UNCHANGED <<pc, sessionVars, baseEnvVars, wire, nWrites, readVars,
                   callVars, telapsed, ttimeout, tgot, cwire, overlapped>>

\* Caller t's command ends: after command_echo_read its read loop takes the
\* output, after an error it clears the buffer.  Either way what the
\* channel holds is read.
conc_finish(t) ==
    /\ pc = "idle"
    /\ tpc[t] \in {"returned", "error"}
    /\ tpc' = [tpc EXCEPT ![t] = "idle"]
    /\ cwire' = <<>>
    /\ UNCHANGED <<pc, sessionVars, baseEnvVars, wire, nWrites, readVars,
                   callVars, tout, telapsed, ttimeout, tgot, overlapped>>

(* ------------------------------------------------------------------ *)
(* Specifications                                                      *)
(* ------------------------------------------------------------------ *)
Connect ==
    \/ _modify_connection_params
    \/ establish_connection

StubCalls ==
    \E a \in StubArgs :
        \/ disable_paging(a)
        \/ save_config(a)
        \/ config_mode(a)
        \/ check_config_mode(a)
        \/ exit_config_mode(a)

EchoSteps(streams, timeouts, writes) ==
    \/ \E c \in Cmds, stream \in streams :
          nWrites < writes /\ write_channel(c, stream)
    \/ \E rt \in timeouts : command_echo_read_call(rt)
    \/ read_recv
    \/ read_tick
    \/ read_expire
    \/ clear_buffer

\* The session as a whole, over a few responses and streams: preparation, prompt detection, the capability stubs.
Next ==
    \/ Connect
    \/ session_preparation
    \/ set_base_prompt_call
    \/ StubCalls
    \/ strip_prompt_call
    \/ EchoSteps(SessionStreams, SessionTimeouts, MaxWrites)
    \/ \E c \in Cmds, stream \in SessionStreams, cmd_verify \in CmdVerifyArgs :
            send_command_timing(c, stream, cmd_verify)
    \/ disconnect
    \/ \E op \in TransportOps : closed_transport_op(op)

Spec == Init /\ [][Next]_vars

\* Prompt stripping, over all response texts up to MaxTextLen.
StripDevicePrompts == { <<">", " ">>, <<"a", ">">> }
InitStrip == InitWith(StripDevicePrompts, Texts)
NextStrip ==
    \/ Connect
    \/ session_preparation
    \/ strip_prompt_call

SpecStrip == InitStrip /\ [][NextStrip]_vars

\* Command-echo reading, over all streams up to MaxStreamLen and the longer
\* ones of the session.
InitEcho == InitWith({<<"a", ">", " ">>}, {<<>>})
NextEcho ==
    \/ Connect
    \/ session_preparation
    \/ EchoSteps(EchoStreams, ReadTimeouts, MaxEchoWrites)

SpecEcho == InitEcho /\ [][NextEcho]_vars

\* Two callers issuing commands on one prepared session, with no
\* serialization between them.
InitConc == InitWith({<<">", " ">>}, {<<>>})
NextConc ==
    \/ Connect
    \/ session_preparation
    \/ \E t \in Callers :
          \/ \E stream \in ConcAnswers(ConcCmd(t)) : conc_write_channel(t, stream)
          \/ \E rt \in ConcReadTimeouts : conc_command_echo_read_call(t, rt)
          \/ conc_read_recv(t)
          \/ conc_read_tick(t)
          \/ conc_read_expire(t)
          \/ conc_finish(t)

SpecConc == InitConc /\ [][NextConc]_vars

(* ------------------------------------------------------------------ *)
(* Properties                                                          *)
(* ------------------------------------------------------------------ *)
\* command_echo_read has just returned or raised.
EchoDone == pc = "idle" /\ lastOp = "command_echo_read"
EchoReturned == EchoDone /\ raised = ""

\* C1: whenever command_echo_read finds the command text within the first
\* read's timeout it returns, and whenever it returns its result is exactly
\* the command it was given: one echo or two, whatever else was read.
C1_EchoReturnsCmd ==
    /\ (EchoDone /\ nReadOk >= 1) => raised = ""
    /\ EchoReturned => (ret = cmd /\ arg = cmd)

\* C1 witness: a return after two echoes were read, with other text read
\* alongside the last one.
C1_Witness ==
    /\ EchoReturned
    /\ nEchoes = 2
    /\ nReadOk = 2
    /\ output # cmd
    /\ ret = cmd

\* A step in which a read of command_echo_read ends by timing out.
TimeoutStep == pc \in {"read1", "read2"} /\ pc' = "idle" /\ wire' = wire

\* C2: a timeout of the first read raises ReadTimeout to the caller with no
\* second read made; a timeout of the second read is swallowed and the call
\* returns the command.
C2_TimeoutHandling ==
    [][TimeoutStep =>
         IF pc = "read1"
         THEN /\ raised' = "ReadTimeout"
              /\ lastOp' = "command_echo_read"
              /\ nReadCalls' = 1
              /\ nReadOk' = 0
         ELSE /\ raised' = ""
              /\ lastOp' = "command_echo_read"
              /\ ret' = cmd]_vars

\* C2 witness: the call returned after its second read timed out.
C2_Witness ==
    /\ EchoReturned
    /\ probeTimedOut
    /\ nReadCalls = 2
    /\ nReadOk = 1
    /\ ret = cmd

StripDone == pc = "idle" /\ lastOp = "strip_prompt"

ResponseLines(text) == Split(text, RESPONSE_RETURN)
LastLine(text) == ResponseLines(text)[Len(ResponseLines(text))]

\* The number of lines at the end of `lines` that are equal to prompt.
RECURSIVE TrailingEqual(_, _)
TrailingEqual(lines, prompt) ==
    IF lines # <<>> /\ lines[Len(lines)] = prompt
    THEN 1 + TrailingEqual(ButLast(lines), prompt)
    ELSE 0

\* The text before the last k lines of text.
BodyBefore(text, k) ==
    Join(SubSeq(ResponseLines(text), 1, Len(ResponseLines(text)) - k),
         RESPONSE_RETURN)

\* The number of consecutive lines at the end of `lines` that hold prompt,
\* lines of whitespace only not counted and not ending the run.
RECURSIVE TrailingPromptRun(_, _)
TrailingPromptRun(lines, prompt) ==
    IF lines = <<>> THEN 0
    ELSE IF Strip(lines[Len(lines)]) = <<>>
         THEN TrailingPromptRun(ButLast(lines), prompt)
    ELSE IF Contains(prompt, lines[Len(lines)])
         THEN 1 + TrailingPromptRun(ButLast(lines), prompt)
    ELSE 0

\* C4 as claimed: a response ending in exactly one or two lines equal to
\* base_prompt is returned as its body, trimmed, and holds no base_prompt.
C4_Original ==
    LET k == TrailingEqual(ResponseLines(response), base_prompt)
    IN  (StripDone /\ k \in {1, 2}) =>
            /\ ret = Strip(BodyBefore(response, k))
            /\ ~Contains(base_prompt, ret)

\* C4 amended: a response ending in exactly one or two lines equal to
\* base_prompt, whose body before those lines holds no occurrence of
\* base_prompt, is returned as its body, trimmed, and holds no base_prompt.
C4_StripsTrailingPrompts ==
    LET k == TrailingEqual(ResponseLines(response), base_prompt)
    IN  (StripDone /\ k \in {1, 2}
           /\ ~Contains(base_prompt, BodyBefore(response, k))) =>
            /\ ret = Strip(BodyBefore(response, k))
            /\ ~Contains(base_prompt, ret)

\* C4 witness: two trailing prompt lines after a body that needs trimming.
C4_Witness ==
    /\ StripDone
    /\ TrailingEqual(ResponseLines(response), base_prompt) = 2
    /\ ~Contains(base_prompt, BodyBefore(response, 2))
    /\ Strip(BodyBefore(response, 2)) # BodyBefore(response, 2)
    /\ ret # <<>>
    /\ ret = Strip(BodyBefore(response, 2))

\* C5: a response whose last line does not hold base_prompt is returned
\* unmodified.
C5_IdentityWithoutPrompt ==
    (StripDone /\ ~Contains(base_prompt, LastLine(response))) => ret = response

\* C5 witness: such a response, with the prompt on an earlier line and
\* whitespace at its end, returned as it was.
C5_Witness ==
    /\ StripDone
    /\ ~Contains(base_prompt, LastLine(response))
    /\ Contains(base_prompt, response)
    /\ RStrip(response) # response
    /\ ret = response

\* The result still ends in a line that holds the prompt.
EndsInPrompt(text, prompt) == Contains(prompt, LastLine(text))

\* C6 as claimed: the result is the input unmodified or holds no trailing
\* prompt line.
C6_Original ==
    StripDone => (ret = response \/ ~EndsInPrompt(ret, base_prompt))

\* C6 amended: when at most two consecutive lines at the end of the input
\* hold base_prompt (whitespace-only lines skipped), the result is the input
\* unmodified or holds no trailing prompt line; when three or more do and
\* the last line is one of them, the result is modified and still ends in a
\* prompt line.
C6_CleanedUpToTwo ==
    LET run == TrailingPromptRun(ResponseLines(response), base_prompt)
    IN  /\ (StripDone /\ run <= 2) =>
              (ret = response \/ ~EndsInPrompt(ret, base_prompt))
        /\ (StripDone /\ run >= 3 /\ EndsInPrompt(response, base_prompt)) =>
              (ret # response /\ EndsInPrompt(ret, base_prompt))

\* C6 witness: two trailing lines holding the prompt, only the last equal
\* to it, removed down to a non-empty body.
C6_Witness ==
    /\ StripDone
    /\ TrailingPromptRun(ResponseLines(response), base_prompt) = 2
    /\ TrailingEqual(ResponseLines(response), base_prompt) = 1
    /\ ret # response
    /\ ret # <<>>
    /\ ~EndsInPrompt(ret, base_prompt)

\* A step that is a call of one of the named operations.
CallOf(ops) == pc \in NoTransportStates /\ pc' = pc /\ lastOp' \in ops

\* The transport is neither written nor read.
TransportUntouched == UNCHANGED <<wire, nWrites, readVars, pc>>

\* C7: check_config_mode returns true exactly when the last of config_mode
\* and exit_config_mode to be called was config_mode (false when neither
\* was); the three operations leave the transport untouched, and
\* config_mode and exit_config_mode return the empty string.
C7_ConfigModeFlag ==
    /\ [](_in_config_mode = (lastModeCall = "config_mode"))
    /\ []((pc = "idle" /\ lastOp = "check_config_mode") =>
              retBool = (lastModeCall = "config_mode"))
    /\ [][CallOf({"config_mode", "exit_config_mode", "check_config_mode"}) =>
              /\ TransportUntouched
              /\ raised' = ""
              /\ lastOp' # "check_config_mode" => ret' = <<>>]_vars

\* C7 witness: check_config_mode answers true after config_mode, with a
\* command written and unread text on the channel.
C7_Witness ==
    /\ pc = "idle"
    /\ lastOp = "check_config_mode"
    /\ retBool = TRUE
    /\ lastModeCall = "config_mode"
    /\ nWrites > 0
    /\ wire # <<>>

\* C8: disable_paging and save_config, whatever their arguments, return the
\* empty result, leave the transport untouched and change no session state.
C8_PagingSaveNoOps ==
    [][CallOf({"disable_paging", "save_config"}) =>
          /\ ret' = <<>>
          /\ raised' = ""
          /\ TransportUntouched
          /\ UNCHANGED <<base_prompt, _in_config_mode, ansi_escape_codes>>]_vars

\* C8 witness: disable_paging returned, called with an argument in config
\* mode, with a prompt stored and unread text on the channel.
C8_Witness ==
    /\ pc = "idle"
    /\ lastOp = "disable_paging"
    /\ arg # <<>>
    /\ _in_config_mode
    /\ base_prompt # <<>>
    /\ wire # <<>>
    /\ ret = <<>>

\* Session preparation has returned: the prompt was detected and stored.
Prepared == pc \notin {"unauth", "authenticating", "new", "failed"}

\* The prompt token the device delivers to the generic set_base_prompt.
DeliveredPrompt == BaseSetBasePrompt(ChannelText(devPrompt, ansi_escape_codes))

\* t is p with the whitespace at both ends removed.
IsTrimOf(t, p) ==
    /\ t = <<>> \/ (t[1] \notin Whitespace /\ t[Len(t)] \notin Whitespace)
    /\ \E i \in 0..Len(p) :
          /\ i + Len(t) <= Len(p)
          /\ SubSeq(p, i + 1, i + Len(t)) = t
          /\ \A j \in 1..Len(p) : (j <= i \/ j > i + Len(t)) => p[j] \in Whitespace

\* C9: once the prompt is detected base_prompt is the delivered prompt
\* trimmed, so it has no whitespace at either end; set_base_prompt returns
\* the stored value, and a further call on the same device prompt leaves the
\* stored value as it was.
C9_BasePromptTrimmed ==
    /\ [](Prepared => IsTrimOf(base_prompt, DeliveredPrompt))
    /\ []((pc = "idle" /\ lastOp = "set_base_prompt") => ret = base_prompt)
    /\ [][CallOf({"set_base_prompt"}) => base_prompt' = base_prompt]_vars

\* C9 witness: set_base_prompt returned for a delivered prompt with leading
\* and trailing whitespace.
C9_Witness ==
    /\ pc = "idle"
    /\ lastOp = "set_base_prompt"
    /\ DeliveredPrompt # <<>>
    /\ Head(DeliveredPrompt) \in Whitespace
    /\ DeliveredPrompt[Len(DeliveredPrompt)] \in Whitespace
    /\ ret = base_prompt
    /\ base_prompt # DeliveredPrompt

\* C10: with "\x1b[9999B[admin@hostname] > " as the initial channel output,
\* session preparation succeeds and leaves base_prompt = "[admin@hostname] >".
C10_ExamplePrompt ==
    devPrompt = ExamplePromptBytes =>
        /\ pc # "failed"
        /\ Prepared => base_prompt = ExamplePrompt

\* C10 witness: session preparation has just returned for that output.
C10_Witness ==
    /\ devPrompt = ExamplePromptBytes
    /\ pc = "idle"
    /\ lastOp = "session_preparation"
    /\ base_prompt = ExamplePrompt

\* The session has authenticated.
Authenticated == pc \notin {"unauth", "authenticating"}

\* C11: the identity presented at authentication is the given identity
\* followed by "+cetw511h4098": the suffix is appended whatever the identity
\* is, once and not twice, and before the authentication step.
C11_LoginSuffixOnce ==
    /\ [](Authenticated =>
            /\ nModify = 1
            /\ authUser = username
            /\ Len(authUser) >= Len(LoginSuffix)
            /\ SubSeq(authUser, Len(authUser) - Len(LoginSuffix) + 1,
                      Len(authUser)) = LoginSuffix)
    /\ [](pc = "unauth" => nModify = 0)
    /\ [][pc = "unauth" => username' = username \o LoginSuffix]_vars
    /\ [][pc # "unauth" => username' = username]_vars
    /\ [][pc = "authenticating" => authUser' = username]_vars

\* C11 witness: "admin" was presented as "admin+cetw511h4098".
C11_Witness ==
    /\ Authenticated
    /\ authUser = AdminUser \o LoginSuffix
    /\ nModify = 1

\* C12 as claimed: whatever cmd_verify the caller of send_command_timing
\* supplied, the generic timed-send is called with command-echo verification
\* switched on.
C12_Original ==
    caller_cmd_verify # "none" => super_cmd_verify = "on"

\* The lifecycle stage a position of the session stands for: a prepared
\* session is Ready whether or not a command is in flight.  PromptDetected
\* is passed inside session_preparation, between its read and its
\* set_base_prompt.
Stage(p) ==
    CASE p = "unauth" -> 0
      [] p = "authenticating" -> 1
      [] p = "new" -> 2
      [] p \in {"idle", "sent", "read1", "read2"} -> 3
      [] p = "failed" -> 4
      [] p = "closed" -> 5

\* C13 as claimed: the session goes through its stages in order and never
\* leaves Closed; on a closed session every operation, the capability stubs
\* and strip_prompt included, fails with the closed-session error and
\* changes no state.
C13_Original ==
    /\ [][Stage(pc') >= Stage(pc)]_vars
    /\ [][pc = "closed" =>
            /\ pc' = "closed"
            /\ raised' = "SessionClosed"
            /\ UNCHANGED <<sessionVars, channelVars, readVars>>]_vars

\* The copies of the command at the head of a stream, two at most: the echo
\* and its repaint.
LeadingEchoes(c, s) ==
    IF Len(s) >= Len(c) /\ SubSeq(s, 1, Len(c)) = c
    THEN IF Len(s) >= 2 * Len(c) /\ SubSeq(s, Len(c) + 1, 2 * Len(c)) = c
         THEN 2
         ELSE 1
    ELSE 0

\* What follows the echoes: the response content.
ResponseContent(c, s) == SubSeq(s, LeadingEchoes(c, s) * Len(c) + 1, Len(s))

\* C14 as claimed: when the answer to the command is one or two echoes and
\* then response content, all of the response content is still unread when
\* command_echo_read returns, also when the probe timed out having read
\* some of it and when the content contains the command text.
C14_Original ==
    (/\ EchoReturned
     /\ LeadingEchoes(cmd, answer) >= 1
     /\ ResponseContent(cmd, answer) # <<>>)
        => wire = ResponseContent(cmd, answer)

\* No prompt terminator is in what the device sends when the channel opens.
NoTerminator == ~HasTerminator(ChannelText(devPrompt, TRUE))

\* session_preparation is over, one way or the other.
PreparationOver == Authenticated /\ pc # "new"

\* C15: when no "]" or ">" arrives, session preparation ends with the
\* ReadTimeout of its one read, set_base_prompt not called and base_prompt
\* not assigned, and the session is not usable; when one arrives,
\* set_base_prompt is called after that read, and not before.
C15_PreparationTimeout ==
    /\ (PreparationOver /\ NoTerminator) =>
            /\ pc = "failed"
            /\ lastOp = "session_preparation"
            /\ raised = "ReadTimeout"
            /\ prepTrace = <<"_test_channel_read">>
            /\ base_prompt = <<>>
    /\ (PreparationOver /\ ~NoTerminator) =>
            /\ pc # "failed"
            /\ prepTrace = <<"_test_channel_read", "set_base_prompt">>
    /\ ~PreparationOver => prepTrace = <<>>

\* C15 witness: preparation failed on a prompt without a terminator.
C15_Witness ==
    /\ pc = "failed"
    /\ devPrompt # <<>>
    /\ NoTerminator
    /\ raised = "ReadTimeout"
    /\ prepTrace = <<"_test_channel_read">>

\* C16: once session preparation has stored base_prompt, no step of the
\* session other than a set_base_prompt call changes it: not strip_prompt,
\* command_echo_read (returning or timing out), send_command_timing,
\* clear_buffer, nor any of the stubs; and strip_prompt works with the
\* stored value.
C16_BasePromptFrame ==
    /\ [][(Prepared /\ lastOp' # "set_base_prompt") =>
              base_prompt' = base_prompt]_vars
    /\ [][(Prepared /\ lastOp' = "strip_prompt") =>
              ret' = strip_prompt(arg', base_prompt)]_vars

\* C16 witness: strip_prompt returned with the prompt stored, after a
\* command whose probe timed out and with config mode entered.
C16_Witness ==
    /\ pc = "idle"
    /\ lastOp = "strip_prompt"
    /\ base_prompt # <<>>
    /\ ret # arg
    /\ probeTimedOut
    /\ _in_config_mode

\* The first read found the echo and the second (probe) read starts.
ProbeStarts == pc = "read1" /\ pc' = "read2"

\* C17 as claimed: the probe's timeout is 1.5 whatever the caller's
\* read_timeout, and is shorter than the timeout of the first read.
C17_Original ==
    [][ProbeStarts =>
          /\ read_timeout' = PROBE_TIMEOUT
          /\ read_timeout' < read_timeout]_vars

\* C17: the probe's timeout is 1.5 whatever the caller's read_timeout; it
\* is shorter than the first read's timeout when the caller's read_timeout
\* is above 1.5, and not shorter when it is 1.5 or less.
C17_ProbeTimeoutFixed ==
    /\ [](pc = "read2" => read_timeout = PROBE_TIMEOUT)
    /\ [][ProbeStarts =>
             /\ read_timeout' = PROBE_TIMEOUT
             /\ read_timeout > PROBE_TIMEOUT => read_timeout' < read_timeout
             /\ read_timeout <= PROBE_TIMEOUT => read_timeout' >= read_timeout]_vars

\* C17 witness: the probe read is waiting, half a unit short of its 1.5.
C17_Witness ==
    /\ pc = "read2"
    /\ nReadCalls = 2
    /\ read_timeout = PROBE_TIMEOUT
    /\ elapsed = PROBE_TIMEOUT - 1
    /\ wire # <<>>

\* Caller t's command_echo_read took a character sent in answer to the
\* other caller's command.
ForeignRead(t) == \E i \in 1..Len(tgot[t]) : tgot[t][i][2] # t

\* Caller t's command_echo_read is over.
ConcDone(t) == tpc[t] \in {"returned", "error"}

====
